---- MODULE Spec2Model ----
\* Token cache of the Device Management agent runtime
\* (02-use-cases/device-management-agent/agent-runtime/utils.py):
\* CognitoTokenManager, get_oauth_token and get_auth_headers.
EXTENDS Integers, Sequences, FiniteSets, TLC

VARIABLES
    env,             \* os.environ: the three COGNITO_* values
    _token_manager,  \* module-global instance (None until first construction)
    now,             \* datetime.now(), in seconds
    requests,        \* outbound POSTs the identity provider has received
    ticks,           \* clock advances so far
    last,            \* the most recent call: inputs seen and results produced
    origin,          \* the provider response the cached token was taken from
    pc,              \* concurrent callers: position inside get_token
    loc,             \* concurrent callers: locals of get_token/_fetch_new_token
    tokWriter,       \* concurrent callers: who executed line 135 last
    expWriter        \* concurrent callers: who executed line 113 last

vars == <<env, _token_manager, now, requests, ticks, last, origin,
          pc, loc, tokWriter, expWriter>>

\* ---------------------------------------------------------------- values

\* Python's None and Optional values
None == <<>>
Some(v) == <<v>>
Val(o) == o[1]

\* truthiness of an Optional[str]: None and "" are falsy
Truthy(o) == o # None /\ Val(o) # ""

\* ------------------------------------------------------- program constants

BUFFER == 300
DEFAULT_EXPIRES_IN == 3600
TIMEOUT == 10
HTTP_OK == 200

\* ------------------------------------------------------------------ bounds

MaxTicks == 2
MaxRequests == 2

\* clock advances offered to the environment
TickSteps == {1, 3299}
\* time a request may take before datetime.now() of line 113 is read
Latencies == {0, TIMEOUT}

\* ------------------------------------------------------ provider responses

CredValues == {None, Some(""), Some("set")}
Environments ==
    [COGNITO_DOMAIN : CredValues, COGNITO_CLIENT_ID : CredValues,
     COGNITO_CLIENT_SECRET : CredValues]

\* expires_in of the JSON body: absent, a number, or a non-number (null, a string)
Num(n) == [numeric |-> TRUE, val |-> n]
NotANumber == [numeric |-> FALSE, val |-> 0]

NoBody == [json_ok |-> FALSE, access_token |-> None, expires_in |-> None]
Raises ==
    [kind |-> "raise", status_code |-> 0] @@ NoBody
Rejected ==
    [kind |-> "response", status_code |-> 401] @@ NoBody
Garbled ==
    [kind |-> "response", status_code |-> HTTP_OK] @@ NoBody
Body(a, e) ==
    [kind |-> "response", status_code |-> HTTP_OK, json_ok |-> TRUE,
     access_token |-> a, expires_in |-> e]
Responses ==
    {Raises, Rejected, Garbled,
     Body(Some("T1"), None), Body(Some("T2"), None),
     Body(Some("T1"), Some(Num(200))), Body(Some("T2"), Some(Num(300))),
     Body(Some("T1"), Some(Num(301))), Body(Some("T2"), Some(NotANumber)),
     Body(None, None), Body(Some(""), None)}

\* ------------------------------------------------------ CognitoTokenManager

\* variant: only an unset variable is rejected, an empty one passes
CognitoTokenManagerInit_unset_only(e) ==
    LET self == [token |-> None, token_expires_at |-> None,
                 cognito_domain |-> e.COGNITO_DOMAIN,
                 client_id |-> e.COGNITO_CLIENT_ID,
                 client_secret |-> e.COGNITO_CLIENT_SECRET]
    IN  IF self.cognito_domain = None \/ self.client_id = None
           \/ self.client_secret = None
        THEN [raised |-> Some("ValueError"), self |-> None]
        ELSE [raised |-> None, self |-> Some(self)]

\* __init__: ValueError unless all three credentials are truthy
CognitoTokenManagerInit(e) ==
    LET self == [token |-> None, token_expires_at |-> None,
                 cognito_domain |-> e.COGNITO_DOMAIN,
                 client_id |-> e.COGNITO_CLIENT_ID,
                 client_secret |-> e.COGNITO_CLIENT_SECRET]
    IN  IF ~(Truthy(self.cognito_domain) /\ Truthy(self.client_id)
             /\ Truthy(self.client_secret))
        THEN [raised |-> Some("ValueError"), self |-> None]
        ELSE [raised |-> None, self |-> Some(self)]

\* token_data.get("expires_in", 3600)
ExpiresInOf(resp) ==
    IF resp.expires_in = None THEN Num(DEFAULT_EXPIRES_IN) ELSE Val(resp.expires_in)

\* variant: the expiry is stored without the 5-minute buffer
_fetch_new_token_no_buffer(self, resp, t) ==
    IF resp.kind = "response" /\ resp.status_code = HTTP_OK /\ resp.json_ok
       /\ ExpiresInOf(resp).numeric
    THEN [self |-> [self EXCEPT !.token_expires_at =
                        Some(t + ExpiresInOf(resp).val)],
          ret |-> resp.access_token]
    ELSE [self |-> self, ret |-> None]

\* variant: the buffer is applied only to lifetimes longer than the buffer
_fetch_new_token_clamped(self, resp, t) ==
    IF resp.kind = "response" /\ resp.status_code = HTTP_OK /\ resp.json_ok
       /\ ExpiresInOf(resp).numeric
    THEN LET e == ExpiresInOf(resp).val
         IN  [self |-> [self EXCEPT !.token_expires_at =
                            Some(t + (IF e > BUFFER THEN e - BUFFER ELSE e))],
              ret |-> resp.access_token]
    ELSE [self |-> self, ret |-> None]

\* variant: a failed fetch also forgets the stored expiry
_fetch_new_token_clears_expiry(self, resp, t) ==
    IF resp.kind = "response" /\ resp.status_code = HTTP_OK /\ resp.json_ok
       /\ ExpiresInOf(resp).numeric
    THEN [self |-> [self EXCEPT !.token_expires_at =
                        Some(t + (ExpiresInOf(resp).val - BUFFER))],
          ret |-> resp.access_token]
    ELSE [self |-> [self EXCEPT !.token_expires_at = None], ret |-> None]

\* _fetch_new_token; t is datetime.now() as read on line 113.
\* Every exception is caught on line 121 and turned into None.
_fetch_new_token(self, resp, t) ==
    IF resp.kind = "raise"
    THEN [self |-> self, ret |-> None]
    ELSE IF resp.status_code = HTTP_OK
    THEN IF ~resp.json_ok
         THEN [self |-> self, ret |-> None]
         ELSE LET access_token == resp.access_token
                  expires_in == ExpiresInOf(resp)
              IN  IF ~expires_in.numeric
                  THEN [self |-> self, ret |-> None]
                  ELSE [self |-> [self EXCEPT !.token_expires_at =
                                      Some(t + (expires_in.val - BUFFER))],
                        ret |-> access_token]
    ELSE [self |-> self, ret |-> None]

\* variant: expiry compared with > instead of >=
_is_token_expired_gt(self, t) ==
    IF ~Truthy(self.token) \/ self.token_expires_at = None
    THEN TRUE
    ELSE t > Val(self.token_expires_at)

\* variant: comparison the wrong way round
_is_token_expired_inverted(self, t) ==
    IF ~Truthy(self.token) \/ self.token_expires_at = None
    THEN TRUE
    ELSE t <= Val(self.token_expires_at)

\* _is_token_expired at time t
_is_token_expired(self, t) ==
    IF ~Truthy(self.token) \/ self.token_expires_at = None
    THEN TRUE
    ELSE t >= Val(self.token_expires_at)

\* variant: a failed fetch keeps the token that was cached
AssignToken_keep_stale(self, value) ==
    IF value = None THEN self ELSE [self EXCEPT !.token = value]

\* line 135: self.token = <value returned by _fetch_new_token>
AssignToken(self, value) ==
    [self EXCEPT !.token = value]

\* get_token; t is the time of the expiry check, t + lat the time the
\* response is in hand
get_token(self, resp, t, lat) ==
    IF _is_token_expired(self, t)
    THEN LET f == _fetch_new_token(self, resp, t + lat)
             s == AssignToken(f.self, f.ret)
         IN  [self |-> s, ret |-> s.token, nreq |-> 1]
    ELSE [self |-> self, ret |-> self.token, nreq |-> 0]

\* get_oauth_token on the module-global instance tm
get_oauth_token(tm, e, resp, t, lat) ==
    LET c == IF tm = None THEN CognitoTokenManagerInit(e)
             ELSE [raised |-> None, self |-> tm]
    IN  IF c.raised # None
        THEN [tm |-> tm, ret |-> None, nreq |-> 0, pre |-> None]
        ELSE LET g == get_token(Val(c.self), resp, t, lat)
             IN  [tm |-> Some(g.self), ret |-> g.ret, nreq |-> g.nreq,
                  pre |-> c.self]

\* variant: the header is built without testing the token
Headers_unchecked(token) ==
    {<<"Authorization",
       "Bearer " \o (IF token = None THEN "None" ELSE Val(token))>>}

\* the mapping get_auth_headers builds from a token, as a set of <<key, value>>
Headers(token) ==
    IF Truthy(token)
    THEN {<<"Authorization", "Bearer " \o Val(token)>>}
    ELSE {}

get_auth_headers(tm, e, resp, t, lat) ==
    LET o == get_oauth_token(tm, e, resp, t, lat)
    IN  o @@ [headers |-> Headers(o.ret)]

\* --------------------------------------------------------------- the state

NoCall ==
    [op |-> "none", ret |-> None, headers |-> {}, raised |-> None, nreq |-> 0,
     pre |-> None, pre_origin |-> None, resp |-> None, t_call |-> 0, t_fetch |-> 0]

IdleCallers == [c \in {"A", "B"} |-> "idle"]
NoLocals == [c \in {"A", "B"} |->
               [observed |-> FALSE, resp |-> None, exp |-> None, value |-> None,
                ret |-> None]]

Init ==
    /\ env \in Environments
    /\ _token_manager = None
    /\ now = 0
    /\ requests = 0
    /\ ticks = 0
    /\ last = NoCall
    /\ origin = None
    /\ pc = IdleCallers
    /\ loc = NoLocals
    /\ tokWriter = None
    /\ expWriter = None

concVars == <<pc, loc, tokWriter, expWriter>>

\* what a call leaves behind: the cache, the clock, the request count
Effect(tm, r, resp, lat, opname, hdrs) ==
    /\ _token_manager' = tm
    /\ now' = IF r.nreq = 1 THEN now + lat ELSE now
    /\ requests' = requests + r.nreq
    /\ origin' = IF r.nreq = 1
                 THEN (IF Truthy(r.ret)
                       THEN Some([resp |-> resp, t_fetch |-> now + lat])
                       ELSE None)
                 ELSE origin
    /\ last' = [op |-> opname, ret |-> r.ret, headers |-> hdrs, raised |-> None,
                nreq |-> r.nreq, pre |-> r.pre, pre_origin |-> origin,
                resp |-> IF r.nreq = 1 THEN Some(resp) ELSE None,
                t_call |-> now,
                t_fetch |-> IF r.nreq = 1 THEN now + lat ELSE now]
    /\ UNCHANGED <<env, ticks, concVars>>

\* a caller constructs a CognitoTokenManager of its own and drops it
Construct ==
    LET c == CognitoTokenManagerInit(env)
    IN  /\ last' = [NoCall EXCEPT !.op = "__init__", !.raised = c.raised,
                                  !.t_call = now, !.t_fetch = now]
        /\ UNCHANGED <<env, _token_manager, now, requests, ticks, origin, concVars>>

\* a caller holding the instance calls get_token on it
GetToken ==
    /\ _token_manager # None
    /\ \E resp \in Responses, lat \in Latencies :
         LET g == get_token(Val(_token_manager), resp, now, lat)
         IN  /\ requests + g.nreq <= MaxRequests
             /\ Effect(Some(g.self), g @@ [pre |-> _token_manager], resp, lat,
                       "get_token", {})

GetOAuthToken ==
    \E resp \in Responses, lat \in Latencies :
        LET o == get_oauth_token(_token_manager, env, resp, now, lat)
        IN  /\ requests + o.nreq <= MaxRequests
            /\ Effect(o.tm, o, resp, lat, "get_oauth_token", {})

GetAuthHeaders ==
    \E resp \in Responses, lat \in Latencies :
        LET h == get_auth_headers(_token_manager, env, resp, now, lat)
        IN  /\ requests + h.nreq <= MaxRequests
            /\ Effect(h.tm, h, resp, lat, "get_auth_headers", h.headers)

\* the wall clock advances between calls
Tick ==
    /\ ticks < MaxTicks
    /\ \E d \in TickSteps : now' = now + d
    /\ ticks' = ticks + 1
    /\ last' = [NoCall EXCEPT !.op = "tick"]
    /\ UNCHANGED <<env, _token_manager, requests, origin, concVars>>

Next ==
    \/ Construct
    \/ GetToken
    \/ GetOAuthToken
    \/ GetAuthHeaders
    \/ Tick

Spec == Init /\ [][Next]_vars

\* ------------------------------------------ two callers sharing one manager
\* get_token holds no lock: each caller runs lines 133, 105-116, 135 and 137
\* as separate steps, and the other caller may run in between.

Callers == {"A", "B"}

\* the response passes line 107 and the expiry of line 113 can be computed
StoresExpiry(resp) ==
    /\ resp.kind = "response" /\ resp.status_code = HTTP_OK /\ resp.json_ok
    /\ ExpiresInOf(resp).numeric

\* a manager built from a complete environment, never used or holding a
\* token fetched at time 0 with expires_in = 301
InitialCaches ==
    LET fresh == Val(CognitoTokenManagerInit(
                     [COGNITO_DOMAIN |-> Some("set"), COGNITO_CLIENT_ID |-> Some("set"),
                      COGNITO_CLIENT_SECRET |-> Some("set")]).self)
    IN  {fresh,
         AssignToken(_fetch_new_token(fresh, Body(Some("T1"), Some(Num(301))), 0).self,
                     Some("T1"))}

InitConc ==
    /\ env = [COGNITO_DOMAIN |-> Some("set"), COGNITO_CLIENT_ID |-> Some("set"),
              COGNITO_CLIENT_SECRET |-> Some("set")]
    /\ \E c \in InitialCaches :
          /\ _token_manager = Some(c)
          /\ last = [NoCall EXCEPT !.pre = Some(c)]
    /\ now = 0
    /\ requests = 0
    /\ ticks = 0
    /\ origin = None
    /\ pc = IdleCallers
    /\ loc = NoLocals
    /\ tokWriter = None
    /\ expWriter = None

\* line 133: if self._is_token_expired()
CheckExpired(c) ==
    /\ pc[c] = "idle"
    /\ LET expired == _is_token_expired(Val(_token_manager), now)
       IN  /\ pc' = [pc EXCEPT ![c] = IF expired THEN "fetch" ELSE "return"]
           /\ loc' = [loc EXCEPT ![c].observed = expired]
    /\ UNCHANGED <<env, _token_manager, now, requests, ticks, last, origin,
                   tokWriter, expWriter>>

\* lines 93-123: the POST, and on success the write of token_expires_at
FetchNewToken(c) ==
    /\ pc[c] = "fetch"
    /\ \E resp \in Responses, lat \in Latencies :
          LET f == _fetch_new_token(Val(_token_manager), resp, now + lat)
          IN  /\ _token_manager' = Some(f.self)
              /\ now' = now + lat
              /\ requests' = requests + 1
              /\ loc' = [loc EXCEPT ![c].resp = Some(resp),
                                    ![c].value = f.ret,
                                    ![c].exp = IF StoresExpiry(resp)
                                               THEN f.self.token_expires_at
                                               ELSE None]
              /\ expWriter' = IF StoresExpiry(resp) THEN Some(c) ELSE expWriter
    /\ pc' = [pc EXCEPT ![c] = "assign"]
    /\ UNCHANGED <<env, ticks, last, origin, tokWriter>>

\* line 135: self.token = <the fetched value>
StoreToken(c) ==
    /\ pc[c] = "assign"
    /\ _token_manager' = Some(AssignToken(Val(_token_manager), loc[c].value))
    /\ tokWriter' = Some(c)
    /\ pc' = [pc EXCEPT ![c] = "return"]
    /\ UNCHANGED <<env, now, requests, ticks, last, origin, loc, expWriter>>

\* line 137: return self.token
ReturnToken(c) ==
    /\ pc[c] = "return"
    /\ loc' = [loc EXCEPT ![c].ret = Val(_token_manager).token]
    /\ pc' = [pc EXCEPT ![c] = "done"]
    /\ UNCHANGED <<env, _token_manager, now, requests, ticks, last, origin,
                   tokWriter, expWriter>>

\* the wall clock advances while the callers run
TickConc ==
    /\ ticks < MaxTicks
    /\ \E d \in TickSteps : now' = now + d
    /\ ticks' = ticks + 1
    /\ UNCHANGED <<env, _token_manager, requests, last, origin, concVars>>

NextConc ==
    \/ \E c \in Callers : CheckExpired(c)
    \/ \E c \in Callers : FetchNewToken(c)
    \/ \E c \in Callers : StoreToken(c)
    \/ \E c \in Callers : ReturnToken(c)
    \/ TickConc

SpecConc == InitConc /\ [][NextConc]_vars

\* ------------------------------------------------------------- properties

\* the cache of the module-global instance
Cache == Val(_token_manager)
\* the last step was a call that entered get_token
Called == last.op \in {"get_token", "get_oauth_token", "get_auth_headers"}
          /\ last.pre # None
\* the cache as get_token found it
Pre == Val(last.pre)
\* get_token found a usable token: one is cached and its expires-at is ahead
FoundValid ==
    /\ Pre.token # None /\ Val(Pre.token) # ""
    /\ Pre.token_expires_at # None
    /\ last.t_call < Val(Pre.token_expires_at)
\* get_token found nothing cached, or a token at or past its expires-at
FoundMissingOrExpired ==
    \/ Pre.token = None \/ Pre.token = Some("")
    \/ (Pre.token_expires_at # None /\ last.t_call >= Val(Pre.token_expires_at))
\* the call issued a request and the refresh failed: transport exception,
\* non-200 status, unparseable body, or an expires_in no expiry can be computed from
Failed(resp) ==
    \/ resp.kind = "raise"
    \/ resp.status_code # 200
    \/ ~resp.json_ok
    \/ (resp.expires_in # None /\ ~Val(resp.expires_in).numeric)
RefreshFailed == Called /\ last.nreq = 1 /\ Failed(Val(last.resp))
\* the provider answered 200 with a body carrying an access_token
AnsweredWithToken(resp) ==
    /\ resp.kind = "response" /\ resp.status_code = 200 /\ resp.json_ok
    /\ resp.access_token # None

\* C1: every non-None token get_token returns has a cached expires-at
\* strictly later than the time of return.
C1_ReturnedTokenNotExpired ==
    (last.op = "get_token" /\ last.ret # None) =>
        /\ Cache.token_expires_at # None
        /\ Val(Cache.token_expires_at) > now

\* C2: with a token cached and the time strictly before its expires-at,
\* get_token issues no request, returns the cached token and leaves the
\* cached token and expires-at as they were.
C2_CacheHit ==
    (Called /\ FoundValid) =>
        /\ last.nreq = 0
        /\ last.ret = Pre.token
        /\ Cache.token = Pre.token
        /\ Cache.token_expires_at = Pre.token_expires_at

C2_Witness ==
    /\ Called /\ FoundValid
    /\ last.op = "get_token" /\ last.ret = Some("T1") /\ now > 0

\* C3 as stated: with nothing cached or the cached token at or past its
\* expires-at, get_token issues exactly one request, and a 200 answer carrying
\* an access_token is returned and cached.
C3_FetchReturnsAccessToken ==
    (Called /\ FoundMissingOrExpired) =>
        /\ last.nreq = 1
        /\ AnsweredWithToken(Val(last.resp)) =>
               /\ last.ret = Val(last.resp).access_token
               /\ Cache.token = Val(last.resp).access_token

\* C3 amended: as above, for a 200 answer carrying an access_token and an
\* expires_in that is absent or a number, so that the expiry can be computed.
C3_FetchReturnsAccessTokenWhenExpiryComputes ==
    (Called /\ FoundMissingOrExpired) =>
        /\ last.nreq = 1
        /\ (AnsweredWithToken(Val(last.resp)) /\ ~Failed(Val(last.resp))) =>
               /\ last.ret = Val(last.resp).access_token
               /\ Cache.token = Val(last.resp).access_token

C3_Witness ==
    /\ Called /\ FoundMissingOrExpired
    /\ Pre.token = Some("T1") /\ last.t_call = Val(Pre.token_expires_at)
    /\ last.nreq = 1 /\ last.ret = Some("T2") /\ Cache.token = Some("T2")

\* C4: after a successful refresh at t0 with expires_in = E (3600 when
\* absent) the cached expires-at is t0 + E - 300, and the expiry check says
\* expired exactly at the times t >= t0 + E - 300.
C4_BufferCorrectness ==
    (origin # None /\ _token_manager # None) =>
        LET t0 == Val(origin).t_fetch
            body == Val(origin).resp
            E == IF body.expires_in = None THEN 3600
                 ELSE Val(body.expires_in).val
        IN  /\ Cache.token_expires_at = Some(t0 + E - 300)
            /\ _is_token_expired(Cache, now) <=> (now >= t0 + E - 300)

C4_Witness ==
    /\ origin # None /\ _token_manager # None
    /\ Val(origin).resp.expires_in = None
    /\ now = Val(origin).t_fetch + 3299
    /\ ~_is_token_expired(Cache, now)

\* C5: a token taken from a response with expires_in < 300 is never served
\* from the cache: the next get_token issues a new request.
C5_SmallExpiryNeverReused ==
    (/\ Called
     /\ Pre.token # None /\ Val(Pre.token) # ""
     /\ last.pre_origin # None
     /\ Val(last.pre_origin).resp.expires_in # None
     /\ Val(Val(last.pre_origin).resp.expires_in).val < 300) =>
        last.nreq = 1

C5_Witness ==
    /\ Called /\ last.op = "get_token"
    /\ Pre.token = Some("T1")
    /\ last.pre_origin # None
    /\ Val(last.pre_origin).resp.expires_in = Some(Num(200))
    /\ last.t_call = Val(last.pre_origin).t_fetch
    /\ last.nreq = 1

\* C6: a failed refresh makes the call return None without raising and
\* leaves no token cached.
C6_FailureIsAbsence ==
    RefreshFailed =>
        /\ last.ret = None
        /\ last.raised = None
        /\ Cache.token = None

C6_Witness ==
    /\ RefreshFailed /\ last.op = "get_oauth_token"
    /\ Pre.token = Some("T1")
    /\ Val(last.resp).status_code = 401

\* C7: get_auth_headers returns {"Authorization": "Bearer <T>"} when the
\* token call yields T, the empty mapping when it yields none, and never raises.
C7_HeaderWrapping ==
    last.op = "get_auth_headers" =>
        /\ last.raised = None
        /\ last.ret = Some("T1") => last.headers = {<<"Authorization", "Bearer T1">>}
        /\ last.ret = Some("T2") => last.headers = {<<"Authorization", "Bearer T2">>}
        /\ last.ret \in {None, Some("")} => last.headers = {}

C7_Witness ==
    /\ last.op = "get_auth_headers" /\ last.nreq = 0
    /\ last.ret = Some("T1")
    /\ last.headers = {<<"Authorization", "Bearer T1">>}

\* C8: constructing the manager with any credential empty or absent raises
\* (ValueError, the code's configuration error) and construction issues no request.
C8_ConstructionValidation ==
    last.op = "__init__" =>
        /\ last.nreq = 0
        /\ (\E k \in DOMAIN env : env[k] \in {None, Some("")}) =>
               last.raised = Some("ValueError")

C8_Witness ==
    /\ last.op = "__init__"
    /\ env.COGNITO_DOMAIN = Some("set") /\ env.COGNITO_CLIENT_ID = Some("set")
    /\ env.COGNITO_CLIENT_SECRET = Some("")
    /\ last.raised = Some("ValueError")

\* C9: a failed refresh leaves the cached expires-at and the credentials as
\* they were; of the cached fields only the token changes, to None.
C9_FailedRefreshFrame ==
    RefreshFailed =>
        /\ Cache.token_expires_at = Pre.token_expires_at
        /\ Cache.cognito_domain = Pre.cognito_domain
        /\ Cache.client_id = Pre.client_id
        /\ Cache.client_secret = Pre.client_secret
        /\ Cache = [Pre EXCEPT !.token = None]

C9_Witness ==
    /\ RefreshFailed
    /\ Pre.token_expires_at # None
    /\ Val(last.resp).expires_in = Some(NotANumber)
    /\ Cache.token_expires_at = Pre.token_expires_at

\* both callers found the token missing or expired and have returned
BothRefreshed ==
    \A c \in Callers : pc[c] = "done" /\ loc[c].observed

\* C10 as stated: when both callers refresh, each issues its own request and
\* the cached token and expires-at end up coming from one and the same response.
C10_FieldsFromOneResponse ==
    (BothRefreshed /\ \A c \in Callers : StoresExpiry(Val(loc[c].resp))) =>
        /\ requests = 2
        /\ \E c \in Callers :
              /\ Cache.token = loc[c].value
              /\ Cache.token_expires_at = loc[c].exp

\* C10 amended: each issues its own request, and each cached field holds what
\* its own last writer stored: the token of the caller that ran line 135 last,
\* the expires-at of the caller that ran line 113 last (the expires-at found
\* at the start when no response stored one).
C10_LastWriterWinsPerField ==
    BothRefreshed =>
        /\ requests = 2
        /\ tokWriter # None
        /\ Cache.token = loc[Val(tokWriter)].value
        /\ Cache.token_expires_at =
               IF expWriter = None THEN Val(last.pre).token_expires_at
               ELSE loc[Val(expWriter)].exp

C10_Witness ==
    /\ BothRefreshed
    /\ tokWriter = Some("A") /\ expWriter = Some("B")
    /\ loc["A"].exp # None /\ loc["A"].exp # loc["B"].exp
    /\ Cache.token = Some("T1") /\ loc["B"].value = Some("T2")
    /\ Cache.token_expires_at = loc["B"].exp

====
